---- MODULE Spec2Model ----
(***************************************************************************)
(* The quiz-attempt lifecycle of susunsoal-backend: the Express handlers   *)
(* of routes/attempt.js (start, save, submit), the agenda job              *)
(* "auto-submit attempt" of agenda.js and the quiz deletion of             *)
(* routes/quiz.js, over the Attempt, Quiz and agenda job collections.      *)
(* Every await of a handler is one atomic step on the store; between two   *)
(* awaits any other handler or job may run.                                *)
(***************************************************************************)
EXTENDS Integers, Sequences, FiniteSets, TLC

(* ---------------------------------------------------------------- bounds *)

\* HTTP requests handled in one behaviour.
MaxRequests == 3

(* ------------------------------------------------------------ the inputs *)

Procs == {"w1", "w2"}

\* The authenticated users: "u1" takes quizzes, "u2" has created the quiz.
Users == {"u1", "u2"}

Participants == {"u1"}

\* The users who read attempts: the two above and "u3", who is neither the
\* participant nor the creator.
Requesters == Users \cup {"u3"}

QuizIds == {"quizA"}

\* Every request may be a /start: the ids of the attempts in order of insertion.
AttemptIds == 1..MaxRequests

\* questionId strings a client sends: the id of the quiz's question as
\* mongoose prints it, the same id in upper-case hex digits, and a well-formed
\* id of no question.
QuestionIdStrings == {"q1", "Q1", "zz"}

SelectedAnswers == {"", "A", "B"}

\* score: { type: Number, default: null }
null == -1

(* ------------------------------------------------------------ conversions *)

\* A 24-digit hex string cast to an ObjectId: the digits, whatever their case.
CastObjectId(s) == IF s = "Q1" THEN "q1" ELSE s

\* ObjectId.prototype.toString: lower-case hex.
toString(oid) == oid

\* A value as the agenda collection stores or matches it: BSON keeps the type,
\* and a string never equals an ObjectId.
BsonObjectId(a) == <<"ObjectId", a>>

BsonString(a) == <<"String", a>>

(* --------------------------------------------------------------- the data *)

NoQuiz ==
  [exists |-> FALSE, createdBy |-> "", questions |-> <<>>, timeLimit |-> 0,
   dateCloses |-> 0, totalScore |-> 0, attemptCount |-> 0, version |-> 0]

\* A quiz as POST /quiz/save stores it: one question with the correct answer
\* "A", a time limit of one minute, closing at instant 1, no attempt counted.
QuizA ==
  [exists |-> TRUE, createdBy |-> "u2",
   questions |-> << [_id |-> "q1", correctAnswer |-> "A"] >>,
   timeLimit |-> 1, dateCloses |-> 1, totalScore |-> 0, attemptCount |-> 0,
   version |-> 0]

NoAttempt ==
  [userId |-> "", quizId |-> "", startTime |-> 0, endTime |-> 0,
   score |-> null, status |-> "", answers |-> <<>>, version |-> 0]

NoDelta == [op |-> "none", index |-> 0]

\* The fields of the body of PUT /quiz/edit that the model keeps.
NoBody == [questions |-> <<>>, timeLimit |-> 0, dateCloses |-> 0, totalScore |-> 0]

\* The bodies a creator sends: the quiz as it is stored at first; the quiz
\* with another correct answer and a totalScore of 2; a body with no time limit.
EditBodies ==
  { [questions |-> QuizA.questions, timeLimit |-> QuizA.timeLimit,
     dateCloses |-> QuizA.dateCloses, totalScore |-> QuizA.totalScore],
    [questions |-> << [_id |-> "q1", correctAnswer |-> "B"] >>,
     timeLimit |-> QuizA.timeLimit, dateCloses |-> QuizA.dateCloses,
     totalScore |-> 2],
    [questions |-> QuizA.questions, timeLimit |-> 0,
     dateCloses |-> QuizA.dateCloses, totalScore |-> QuizA.totalScore] }

IdleProc ==
  [pc |-> "idle", op |-> "", user |-> "", quizId |-> "", attemptId |-> 0,
   questionId |-> "", selectedAnswer |-> "", attempt |-> NoAttempt,
   quiz |-> NoQuiz, delta |-> NoDelta, id |-> 0, body |-> NoBody]

NoJob ==
  [st |-> "none", nextRunAt |-> 0, data |-> BsonObjectId(0), pc |-> "",
   attempt |-> NoAttempt, quiz |-> NoQuiz, score |-> 0, log |-> ""]

NoResponse == [op |-> "", attemptId |-> 0, code |-> 0, id |-> 0]

\* The clock runs to the instant the quiz closes, when every job is due.
MaxTime == QuizA.dateCloses

VARIABLES
  quizzes,    \* the Quiz collection: quiz id -> document (exists = FALSE: none)
  attempts,   \* the Attempt collection: the documents in order of insertion
  jobs,       \* the agenda job collection, by the attempt a job was scheduled for
  procs,      \* the request handlers in flight, with their in-memory documents
  res,        \* the response the step just taken has sent, if any
  now,        \* the wall clock
  nreq,       \* requests handled so far
  lateSaves   \* history: attempts whose answers a /save wrote after submission

vars == <<quizzes, attempts, jobs, procs, res, now, nreq, lateSaves>>

(* ------------------------------------------------------------ the helpers *)

AttemptFound(id) == id \in 1..Len(attempts)

\* Attempt.findById
FindAttempt(id) == IF AttemptFound(id) THEN attempts[id] ELSE NoAttempt

\* Quiz.findById, and populate("quizId")
FindQuiz(q) == IF q \in QuizIds THEN quizzes[q] ELSE NoQuiz

Min(a, b) == IF a <= b THEN a ELSE b

\* Array.prototype.findIndex with the test of /save: the stored id printed,
\* against the request's string as sent. 0: none (findIndex's -1).
RECURSIVE FindIndexFrom(_, _, _)
FindIndexFrom(answers, questionId, i) ==
  IF i > Len(answers) THEN 0
  ELSE IF toString(answers[i].questionId) = questionId THEN i
  ELSE FindIndexFrom(answers, questionId, i + 1)

FindIndex(answers, questionId) == FindIndexFrom(answers, questionId, 1)

\* Array.prototype.splice(index, 1)
Splice(s, index) == [i \in 1..(Len(s) - 1) |-> IF i < index THEN s[i] ELSE s[i + 1]]

\* const calculateScore = (answers, quiz) => quiz.questions.reduce(...)
RECURSIVE ReduceQuestions(_, _, _)
ReduceQuestions(answers, questions, k) ==
  IF k = 0 THEN 0
  ELSE LET score == ReduceQuestions(answers, questions, k - 1)
           question == questions[k]
           userAnswer == FindIndex(answers, toString(question._id))
       IN  IF userAnswer # 0
              /\ answers[userAnswer].selectedAnswer = question.correctAnswer
           THEN score + 1 ELSE score

calculateScore(answers, quiz) ==
  ReduceQuestions(answers, quiz.questions, Len(quiz.questions))

\* quiz.questions.find((q) => q._id.toString() === ans.questionId.toString())
RECURSIVE FindQuestionFrom(_, _, _)
FindQuestionFrom(questions, questionId, i) ==
  IF i > Len(questions) THEN 0
  ELSE IF toString(questions[i]._id) = toString(questionId) THEN i
  ELSE FindQuestionFrom(questions, questionId, i + 1)

\* The job's own scoring: attempt.answers.forEach(...) with score++.
RECURSIVE ForEachAnswer(_, _, _)
ForEachAnswer(answers, questions, k) ==
  IF k = 0 THEN 0
  ELSE LET score == ForEachAnswer(answers, questions, k - 1)
           question == FindQuestionFrom(questions, answers[k].questionId, 1)
       IN  IF question # 0
              /\ questions[question].correctAnswer = answers[k].selectedAnswer
           THEN score + 1 ELSE score

autoSubmitScore(answers, quiz) == ForEachAnswer(answers, quiz.questions, Len(answers))

\* The idle handler slots are alike: a request takes "w2" only while "w1" is busy.
CanBegin(p) ==
  /\ procs[p].pc = "idle"
  /\ nreq < MaxRequests
  /\ (p = "w2" => procs["w1"].pc # "idle")

Begin(op, user, quizId, attemptId, questionId, selectedAnswer) ==
  [IdleProc EXCEPT !.op = op, !.user = user, !.quizId = quizId,
                   !.attemptId = attemptId, !.questionId = questionId,
                   !.selectedAnswer = selectedAnswer]

\* The handler p goes on to its next await as req; nothing is sent.
Goes(p, req) ==
  /\ procs' = [procs EXCEPT ![p] = req]
  /\ res' = NoResponse

\* res.status(code).json(...): the handler p of the request req is over.
Sends(p, req, code, id) ==
  /\ procs' = [procs EXCEPT ![p] = IdleProc]
  /\ res' = [op |-> req.op, attemptId |-> req.attemptId, code |-> code, id |-> id]

Init ==
  /\ quizzes = [q \in QuizIds |-> QuizA]
  /\ attempts = <<>>
  /\ jobs = [a \in AttemptIds |-> NoJob]
  /\ procs = [p \in Procs |-> IdleProc]
  /\ res = NoResponse
  /\ now = 0
  /\ nreq = 0
  /\ lateSaves = {}

(* ------------------------------------------------------- POST /attempt/start *)

\* An attempt that ends when its time limit does, whenever the quiz closes.
NewAttemptToLimit(u, q, quiz) ==
  [NoAttempt EXCEPT !.userId = u, !.quizId = q, !.status = "in-progress",
                    !.startTime = now, !.endTime = now + quiz.timeLimit]

\* new Attempt({ userId, quizId, status: "in-progress", startTime: now, endTime })
NewAttempt(u, q, quiz) ==
  [NoAttempt EXCEPT !.userId = u, !.quizId = q, !.status = "in-progress",
                    !.startTime = now,
                    !.endTime = Min(quiz.dateCloses, now + quiz.timeLimit)]

\* A /start without its test of the quiz found.
StartFindUnchecked(p) ==
  /\ CanBegin(p)
  /\ \E u \in Participants, q \in QuizIds \cup {"noquiz"} :
       Goes(p, [Begin("start", u, q, 0, "", "") EXCEPT
                  !.pc = "start_save", !.attempt = NewAttempt(u, q, FindQuiz(q))])
  /\ nreq' = nreq + 1
  /\ UNCHANGED <<quizzes, attempts, jobs, now, lateSaves>>

\* Quiz.findById, the 404, and the new Attempt built in memory.
StartFind(p) ==
  /\ CanBegin(p)
  /\ \E u \in Participants, q \in QuizIds \cup {"noquiz"} :
       LET quiz == FindQuiz(q)
           req == Begin("start", u, q, 0, "", "")
       IN  IF ~quiz.exists
           THEN Sends(p, req, 404, 0)
           ELSE Goes(p, [req EXCEPT !.pc = "start_save",
                                    !.attempt = NewAttempt(u, q, quiz)])
  /\ nreq' = nreq + 1
  /\ UNCHANGED <<quizzes, attempts, jobs, now, lateSaves>>

\* await attempt.save(): the document is inserted.
StartSave(p) ==
  /\ procs[p].pc = "start_save"
  /\ attempts' = Append(attempts, procs[p].attempt)
  /\ Goes(p, [procs[p] EXCEPT !.pc = "start_schedule", !.id = Len(attempts) + 1])
  /\ UNCHANGED <<quizzes, jobs, now, nreq, lateSaves>>

\* A /start that schedules the job at the start of the attempt.
StartScheduleAtStart(p) ==
  /\ procs[p].pc = "start_schedule"
  /\ jobs' = [jobs EXCEPT ![procs[p].id] =
        [NoJob EXCEPT !.st = "scheduled", !.nextRunAt = procs[p].attempt.startTime,
                      !.data = BsonObjectId(procs[p].id)]]
  /\ Sends(p, procs[p], 201, procs[p].id)
  /\ UNCHANGED <<quizzes, attempts, now, nreq, lateSaves>>

\* await agenda.schedule(endTime, "auto-submit attempt", { attemptId: attempt._id })
\* and res.status(201).json(attempt)
StartSchedule(p) ==
  /\ procs[p].pc = "start_schedule"
  /\ jobs' = [jobs EXCEPT ![procs[p].id] =
        [NoJob EXCEPT !.st = "scheduled", !.nextRunAt = procs[p].attempt.endTime,
                      !.data = BsonObjectId(procs[p].id)]]
  /\ Sends(p, procs[p], 201, procs[p].id)
  /\ UNCHANGED <<quizzes, attempts, now, nreq, lateSaves>>

(* -------------------------------------------------------- POST /attempt/save *)

\* The change /save makes to the in-memory answers, as mongoose will send it:
\* a $push, a $set of one element (where the version is the one read), a $set
\* of the whole array (where the version is the one read), or nothing.
SaveDelta(answers, questionId, selectedAnswer) ==
  LET existingIndex == FindIndex(answers, questionId)
  IN  IF existingIndex # 0
      THEN IF selectedAnswer = ""
           THEN [op |-> "splice", index |-> existingIndex]
           ELSE IF answers[existingIndex].selectedAnswer = selectedAnswer
                THEN NoDelta
                ELSE [op |-> "set", index |-> existingIndex]
      ELSE IF selectedAnswer # ""
           THEN [op |-> "push", index |-> 0]
           ELSE NoDelta

\* A /save that refuses an attempt whose endTime has come.
SaveFindWithDeadline(p) ==
  /\ CanBegin(p)
  /\ \E u \in Users, a \in 1..(Len(attempts) + 1), qs \in QuestionIdStrings,
        sel \in SelectedAnswers :
       LET attempt == FindAttempt(a)
           req == Begin("save", u, "", a, qs, sel)
           delta == SaveDelta(attempt.answers, qs, sel)
       IN  IF ~AttemptFound(a) THEN Sends(p, req, 404, 0)
           ELSE IF attempt.status # "in-progress" THEN Sends(p, req, 400, 0)
           ELSE IF now >= attempt.endTime THEN Sends(p, req, 400, 0)
           ELSE IF delta.op = "none" THEN Sends(p, req, 200, a)
           ELSE Goes(p, [req EXCEPT !.pc = "save_save", !.attempt = attempt,
                                    !.delta = delta])
  /\ nreq' = nreq + 1
  /\ UNCHANGED <<quizzes, attempts, jobs, now, lateSaves>>

\* Attempt.findById, the 404, the 400, and the answers changed in memory. A
\* save() of an unchanged document sends nothing to the store. The request
\* is of any authenticated user: req.user is not read.
SaveFind(p) ==
  /\ CanBegin(p)
  /\ \E u \in Users, a \in 1..(Len(attempts) + 1), qs \in QuestionIdStrings,
        sel \in SelectedAnswers :
       LET attempt == FindAttempt(a)
           req == Begin("save", u, "", a, qs, sel)
           delta == SaveDelta(attempt.answers, qs, sel)
       IN  IF ~AttemptFound(a) THEN Sends(p, req, 404, 0)
           ELSE IF attempt.status # "in-progress" THEN Sends(p, req, 400, 0)
           ELSE IF delta.op = "none" THEN Sends(p, req, 200, a)
           ELSE Goes(p, [req EXCEPT !.pc = "save_save", !.attempt = attempt,
                                    !.delta = delta])
  /\ nreq' = nreq + 1
  /\ UNCHANGED <<quizzes, attempts, jobs, now, lateSaves>>

\* The stored answers after the update that save() sends for the request req:
\* the $push of the new entry (its questionId cast), the $set of one element's
\* selectedAnswer, or the $set of the array as spliced in memory.
SavedAnswers(stored, req) ==
  LET d == req.delta
      entry == [questionId |-> CastObjectId(req.questionId),
                selectedAnswer |-> req.selectedAnswer]
  IN  CASE d.op = "push" -> Append(stored.answers, entry)
        [] d.op = "set" ->
             [stored.answers EXCEPT ![d.index].selectedAnswer = req.selectedAnswer]
        [] d.op = "splice" -> Splice(req.attempt.answers, d.index)

\* The version key: incremented by a $push and by a $set of the array.
SavedVersion(stored, req) ==
  IF req.delta.op = "set" THEN stored.version ELSE stored.version + 1

\* A save() that wrote the whole in-memory document, not the paths changed.
SavedWholeDocument(stored, req) ==
  [req.attempt EXCEPT !.answers = SavedAnswers(stored, req),
                      !.version = SavedVersion(stored, req)]

\* The stored document after save() of /save: only the paths changed are sent.
Saved(stored, req) ==
  [stored EXCEPT !.answers = SavedAnswers(stored, req),
                 !.version = SavedVersion(stored, req)]

\* mongoose's where clause on the version key: a $set below or of the array.
VersionOk(stored, req) ==
  req.delta.op = "push" \/ stored.version = req.attempt.version

\* await attempt.save() of /save, then the 200; a VersionError is the 500.
SaveSave(p) ==
  /\ procs[p].pc = "save_save"
  /\ LET a == procs[p].attemptId
         stored == attempts[a]
     IN  IF VersionOk(stored, procs[p])
         THEN /\ attempts' = [attempts EXCEPT ![a] = Saved(stored, procs[p])]
              /\ Sends(p, procs[p], 200, a)
              /\ lateSaves' = IF stored.status = "submitted"
                              THEN lateSaves \cup {a} ELSE lateSaves
         ELSE /\ attempts' = attempts
              /\ Sends(p, procs[p], 500, 0)
              /\ lateSaves' = lateSaves
  /\ UNCHANGED <<quizzes, jobs, now, nreq>>

(* ------------------------------------------------------ POST /attempt/submit *)

\* Attempt.findById(attemptId), and the 404 once the query has resolved. The
\* request is of any authenticated user: req.user is not read.
SubmitFind(p) ==
  /\ CanBegin(p)
  /\ \E u \in Users, a \in 1..(Len(attempts) + 1) :
       LET req == Begin("submit", u, "", a, "", "")
       IN  IF ~AttemptFound(a)
           THEN Sends(p, req, 404, 0)
           ELSE Goes(p, [req EXCEPT !.pc = "submit_populate",
                                    !.attempt = FindAttempt(a)])
  /\ nreq' = nreq + 1
  /\ UNCHANGED <<quizzes, attempts, jobs, now, lateSaves>>

\* A /submit without its test of attempt.status.
SubmitPopulateUnchecked(p) ==
  /\ procs[p].pc = "submit_populate"
  /\ Goes(p, [procs[p] EXCEPT !.pc = "submit_cancel",
                              !.quiz = FindQuiz(procs[p].attempt.quizId)])
  /\ UNCHANGED <<quizzes, attempts, jobs, now, nreq, lateSaves>>

\* .populate("quizId"): the second query; then the 400 of a submitted attempt.
SubmitPopulate(p) ==
  /\ procs[p].pc = "submit_populate"
  /\ IF procs[p].attempt.status = "submitted"
     THEN Sends(p, procs[p], 400, 0)
     ELSE Goes(p, [procs[p] EXCEPT !.pc = "submit_cancel",
                                   !.quiz = FindQuiz(procs[p].attempt.quizId)])
  /\ UNCHANGED <<quizzes, attempts, jobs, now, nreq, lateSaves>>

\* agenda.cancel(query): deleteMany(query) on the job collection, the query as
\* given. A job that runs goes on running.
Cancel(query) ==
  [j \in AttemptIds |->
     IF jobs[j].st \in {"scheduled", "done"} /\ jobs[j].data = query
     THEN [jobs[j] EXCEPT !.st = "cancelled"]
     ELSE jobs[j]]

\* attempt.status = "submitted"; attempt.score = ...: the document in memory.
Finalized(attempt, score) == [attempt EXCEPT !.status = "submitted", !.score = score]

\* await agenda.cancel({ "data.attemptId": attemptId }) with the string of the
\* request body; then the 404 of a missing quiz, and the score.
SubmitCancel(p) ==
  /\ procs[p].pc = "submit_cancel"
  /\ jobs' = Cancel(BsonString(procs[p].attemptId))
  /\ IF ~procs[p].quiz.exists
     THEN Sends(p, procs[p], 404, 0)
     ELSE Goes(p, [procs[p] EXCEPT
             !.pc = "submit_save_attempt",
             !.attempt = Finalized(@, calculateScore(procs[p].attempt.answers,
                                                     procs[p].quiz))])
  /\ UNCHANGED <<quizzes, attempts, now, nreq, lateSaves>>

\* A finalization that stored the status and not the score.
AttemptSavedStatusOnly(stored, attempt) == [stored EXCEPT !.status = attempt.status]

\* A finalization that also ends the attempt at the time of its write.
AttemptSavedEnding(stored, attempt) ==
  [stored EXCEPT !.status = attempt.status, !.score = attempt.score, !.endTime = now]

\* attempt.save() of a finalization: $set of the two paths changed, no version.
AttemptSaved(stored, attempt) ==
  [stored EXCEPT !.status = attempt.status, !.score = attempt.score]

\* await attempt.save()
SubmitSaveAttempt(p) ==
  /\ procs[p].pc = "submit_save_attempt"
  /\ attempts' = [attempts EXCEPT ![procs[p].attemptId] =
                    AttemptSaved(@, procs[p].attempt)]
  /\ Goes(p, [procs[p] EXCEPT !.pc = "submit_save_quiz"])
  /\ UNCHANGED <<quizzes, jobs, now, nreq, lateSaves>>

\* quiz.totalScore += score; quiz.attemptCount += 1; quiz.save(): the $set of
\* the paths whose value changed in memory, computed from the quiz as read.
QuizSaved(stored, quiz, score) ==
  [stored EXCEPT !.attemptCount = quiz.attemptCount + 1,
                 !.totalScore = IF score # 0 THEN quiz.totalScore + score ELSE @]

\* save() of a document that is no longer stored: an error in the mongoose
\* versions that report it, nothing in the others.
GoneCodes == {200, 500}

\* await quiz.save(); res.json({ message, attempt, quiz })
SubmitSaveQuiz(p) ==
  /\ procs[p].pc = "submit_save_quiz"
  /\ LET q == procs[p].attempt.quizId
         score == procs[p].attempt.score
     IN  IF quizzes[q].exists
         THEN /\ quizzes' = [quizzes EXCEPT ![q] = QuizSaved(@, procs[p].quiz, score)]
              /\ Sends(p, procs[p], 200, procs[p].attemptId)
         ELSE /\ quizzes' = quizzes
              /\ \E code \in GoneCodes : Sends(p, procs[p], code, procs[p].attemptId)
  /\ UNCHANGED <<attempts, jobs, now, nreq, lateSaves>>

(* ------------------------------------------- the job "auto-submit attempt" *)

\* The job has returned, or its catch has logged the error.
Finished(a, log) == [jobs[a] EXCEPT !.st = "done", !.pc = "", !.attempt = NoAttempt,
                                    !.quiz = NoQuiz, !.score = 0, !.log = log]

\* The poller takes a job that is due; Attempt.findById(attemptId).
AutoFind(a) ==
  /\ jobs[a].st = "scheduled"
  /\ jobs[a].nextRunAt <= now
  /\ LET attemptId == jobs[a].data[2]
     IN  jobs' = [jobs EXCEPT ![a] =
           IF ~AttemptFound(attemptId)
           THEN Finished(a, "not found")
           ELSE [jobs[a] EXCEPT !.st = "running", !.pc = "populate",
                                !.attempt = FindAttempt(attemptId)]]
  /\ res' = NoResponse
  /\ UNCHANGED <<quizzes, attempts, procs, now, nreq, lateSaves>>

\* A job without its test of attempt.status.
AutoPopulateUnchecked(a) ==
  /\ jobs[a].st = "running" /\ jobs[a].pc = "populate"
  /\ LET attempt == jobs[a].attempt
         quiz == FindQuiz(attempt.quizId)
         score == autoSubmitScore(attempt.answers, quiz)
     IN  jobs' = [jobs EXCEPT ![a] =
           IF ~quiz.exists /\ attempt.answers # <<>> THEN Finished(a, "error")
           ELSE [jobs[a] EXCEPT !.pc = "save_attempt", !.quiz = quiz,
                                !.score = score,
                                !.attempt = Finalized(@, score)]]
  /\ res' = NoResponse
  /\ UNCHANGED <<quizzes, attempts, procs, now, nreq, lateSaves>>

\* .populate("quizId"); the return of a submitted attempt; the scoring, which
\* reads quiz.questions once per answer; the document changed in memory.
AutoPopulate(a) ==
  /\ jobs[a].st = "running" /\ jobs[a].pc = "populate"
  /\ LET attempt == jobs[a].attempt
         quiz == FindQuiz(attempt.quizId)
         score == autoSubmitScore(attempt.answers, quiz)
     IN  jobs' = [jobs EXCEPT ![a] =
           IF attempt.status = "submitted" THEN Finished(a, "already submitted")
           ELSE IF ~quiz.exists /\ attempt.answers # <<>> THEN Finished(a, "error")
           ELSE [jobs[a] EXCEPT !.pc = "save_attempt", !.quiz = quiz,
                                !.score = score,
                                !.attempt = Finalized(@, score)]]
  /\ res' = NoResponse
  /\ UNCHANGED <<quizzes, attempts, procs, now, nreq, lateSaves>>

\* await attempt.save(); then quiz.totalScore += score, a TypeError on null.
AutoSaveAttempt(a) ==
  /\ jobs[a].st = "running" /\ jobs[a].pc = "save_attempt"
  /\ attempts' = [attempts EXCEPT ![jobs[a].data[2]] =
                    AttemptSaved(@, jobs[a].attempt)]
  /\ jobs' = [jobs EXCEPT ![a] =
        IF ~jobs[a].quiz.exists THEN Finished(a, "error")
        ELSE [jobs[a] EXCEPT !.pc = "save_quiz"]]
  /\ res' = NoResponse
  /\ UNCHANGED <<quizzes, procs, now, nreq, lateSaves>>

GoneLogs == {"auto-submitted", "error"}

\* await quiz.save(); console.log(`Auto-submitted attempt ${attemptId}.`)
AutoSaveQuiz(a) ==
  /\ jobs[a].st = "running" /\ jobs[a].pc = "save_quiz"
  /\ LET q == jobs[a].attempt.quizId
     IN  IF quizzes[q].exists
         THEN /\ quizzes' = [quizzes EXCEPT ![q] =
                               QuizSaved(@, jobs[a].quiz, jobs[a].score)]
              /\ jobs' = [jobs EXCEPT ![a] = Finished(a, "auto-submitted")]
         ELSE /\ quizzes' = quizzes
              /\ \E log \in GoneLogs : jobs' = [jobs EXCEPT ![a] = Finished(a, log)]
  /\ res' = NoResponse
  /\ UNCHANGED <<attempts, procs, now, nreq, lateSaves>>

(* ------------------------------------------------- DELETE /quiz/delete/:quizId *)

\* Quiz.findById, the 404, and the two 403.
DeleteFind(p) ==
  /\ CanBegin(p)
  /\ \E u \in Users, q \in QuizIds :
       LET quiz == FindQuiz(q)
           req == Begin("delete", u, q, 0, "", "")
       IN  IF ~quiz.exists THEN Sends(p, req, 404, 0)
           ELSE IF quiz.createdBy # u THEN Sends(p, req, 403, 0)
           ELSE IF quiz.attemptCount > 0 THEN Sends(p, req, 403, 0)
           ELSE Goes(p, [req EXCEPT !.pc = "delete_do"])
  /\ nreq' = nreq + 1
  /\ UNCHANGED <<quizzes, attempts, jobs, now, lateSaves>>

\* A delete that also removes the attempts of the quiz.
DeleteDoCascading(p) ==
  /\ procs[p].pc = "delete_do"
  /\ quizzes' = [quizzes EXCEPT ![procs[p].quizId] = NoQuiz]
  /\ attempts' = SelectSeq(attempts, LAMBDA at : at.quizId # procs[p].quizId)
  /\ Sends(p, procs[p], 200, 0)
  /\ UNCHANGED <<jobs, now, nreq, lateSaves>>

\* await Quiz.findByIdAndDelete(quizId)
DeleteDo(p) ==
  /\ procs[p].pc = "delete_do"
  /\ quizzes' = [quizzes EXCEPT ![procs[p].quizId] = NoQuiz]
  /\ Sends(p, procs[p], 200, 0)
  /\ UNCHANGED <<attempts, jobs, now, nreq, lateSaves>>

(* ---------------------------------------------------- PUT /quiz/edit/:quizId *)

\* Quiz.findById, the 404, the two 403 and the 400 of the validation.
EditFind(p) ==
  /\ CanBegin(p)
  /\ \E u \in Users, q \in QuizIds, body \in EditBodies :
       LET quiz == FindQuiz(q)
           req == [Begin("edit", u, q, 0, "", "") EXCEPT !.body = body]
       IN  IF ~quiz.exists THEN Sends(p, req, 404, 0)
           ELSE IF quiz.createdBy # u THEN Sends(p, req, 403, 0)
           ELSE IF quiz.attemptCount > 0 THEN Sends(p, req, 403, 0)
           ELSE IF body.timeLimit < 1 \/ Len(body.questions) = 0
                THEN Sends(p, req, 400, 0)
           ELSE Goes(p, [req EXCEPT !.pc = "edit_save", !.quiz = quiz])
  /\ nreq' = nreq + 1
  /\ UNCHANGED <<quizzes, attempts, jobs, now, lateSaves>>

\* The stored quiz after quiz.save() of the edit: the $set of the paths whose
\* body value differs from the value read, the version key incremented with
\* the questions.
EditSaved(stored, quiz, body) ==
  [stored EXCEPT
     !.questions = IF body.questions # quiz.questions THEN body.questions ELSE @,
     !.timeLimit = IF body.timeLimit # quiz.timeLimit THEN body.timeLimit ELSE @,
     !.dateCloses = IF body.dateCloses # quiz.dateCloses THEN body.dateCloses ELSE @,
     !.totalScore = IF body.totalScore # quiz.totalScore THEN body.totalScore ELSE @,
     !.version = IF body.questions # quiz.questions THEN @ + 1 ELSE @]

\* await quiz.save() of the edit and the 200; a $set of the questions goes
\* with a where clause on the version read, a VersionError being the 500.
EditSave(p) ==
  /\ procs[p].pc = "edit_save"
  /\ LET q == procs[p].quizId
         quiz == procs[p].quiz
         body == procs[p].body
     IN  IF ~quizzes[q].exists
         THEN /\ quizzes' = quizzes
              /\ \E code \in GoneCodes : Sends(p, procs[p], code, 0)
         ELSE IF body.questions # quiz.questions /\ quizzes[q].version # quiz.version
         THEN /\ quizzes' = quizzes
              /\ Sends(p, procs[p], 500, 0)
         ELSE /\ quizzes' = [quizzes EXCEPT ![q] = EditSaved(@, quiz, body)]
              /\ Sends(p, procs[p], 200, 0)
  /\ UNCHANGED <<attempts, jobs, now, nreq, lateSaves>>

(* --------------------------------------------------- GET /attempt/:attemptId *)

\* Attempt.findById, the 404, and the 403 of an attempt not submitted.
GetFind(p) ==
  /\ CanBegin(p)
  /\ \E u \in Requesters, a \in 1..(Len(attempts) + 1) :
       LET attempt == FindAttempt(a)
           req == Begin("get", u, "", a, "", "")
       IN  IF ~AttemptFound(a) THEN Sends(p, req, 404, 0)
           ELSE IF attempt.status # "submitted" THEN Sends(p, req, 403, 0)
           ELSE Goes(p, [req EXCEPT !.pc = "get_quiz", !.attempt = attempt])
  /\ nreq' = nreq + 1
  /\ UNCHANGED <<quizzes, attempts, jobs, now, lateSaves>>

\* A GET that answers every requester.
GetQuizUnchecked(p) ==
  /\ procs[p].pc = "get_quiz"
  /\ IF ~FindQuiz(procs[p].attempt.quizId).exists
     THEN Sends(p, procs[p], 404, 0)
     ELSE Sends(p, procs[p], 200, procs[p].attemptId)
  /\ UNCHANGED <<quizzes, attempts, jobs, now, nreq, lateSaves>>

\* Quiz.findById(attempt.quizId), the 404, and the attempt for its
\* participant or the quiz's creator, the 403 for anyone else.
GetQuiz(p) ==
  /\ procs[p].pc = "get_quiz"
  /\ LET attempt == procs[p].attempt
         attemptedQuiz == FindQuiz(attempt.quizId)
         userId == procs[p].user
     IN  IF ~attemptedQuiz.exists THEN Sends(p, procs[p], 404, 0)
         ELSE IF attempt.userId = userId \/ attemptedQuiz.createdBy = userId
         THEN Sends(p, procs[p], 200, procs[p].attemptId)
         ELSE Sends(p, procs[p], 403, 0)
  /\ UNCHANGED <<quizzes, attempts, jobs, now, nreq, lateSaves>>

(* ------------------------------------------ GET /attempt/submissions/:quizId *)

\* A listing that answers every requester.
ListFindUnchecked(p) ==
  /\ CanBegin(p)
  /\ \E u \in Requesters, q \in QuizIds \cup {"noquiz"} :
       LET quiz == FindQuiz(q)
           req == Begin("list", u, q, 0, "", "")
       IN  IF ~quiz.exists THEN Sends(p, req, 404, 0)
           ELSE Goes(p, [req EXCEPT !.pc = "list_attempts"])
  /\ nreq' = nreq + 1
  /\ UNCHANGED <<quizzes, attempts, jobs, now, lateSaves>>

\* Quiz.findById, the 404, and the 403 of a requester who is not the creator.
ListFind(p) ==
  /\ CanBegin(p)
  /\ \E u \in Requesters, q \in QuizIds \cup {"noquiz"} :
       LET quiz == FindQuiz(q)
           req == Begin("list", u, q, 0, "", "")
       IN  IF ~quiz.exists THEN Sends(p, req, 404, 0)
           ELSE IF quiz.createdBy # u THEN Sends(p, req, 403, 0)
           ELSE Goes(p, [req EXCEPT !.pc = "list_attempts"])
  /\ nreq' = nreq + 1
  /\ UNCHANGED <<quizzes, attempts, jobs, now, lateSaves>>

\* Attempt.find({ quizId }) and res.json({ attempts }): the 200 carries the
\* number of the attempts listed.
ListAttempts(p) ==
  /\ procs[p].pc = "list_attempts"
  /\ Sends(p, procs[p], 200,
           Cardinality({a \in 1..Len(attempts) : attempts[a].quizId = procs[p].quizId}))
  /\ UNCHANGED <<quizzes, attempts, jobs, now, nreq, lateSaves>>

(* ---------------------------------------------------------------- the clock *)

Tick ==
  /\ now < MaxTime
  /\ now' = now + 1
  /\ res' = NoResponse
  /\ UNCHANGED <<quizzes, attempts, jobs, procs, nreq, lateSaves>>

Next ==
  \/ \E p \in Procs : StartFind(p)
  \/ \E p \in Procs : StartSave(p)
  \/ \E p \in Procs : StartSchedule(p)
  \/ \E p \in Procs : SaveFind(p)
  \/ \E p \in Procs : SaveSave(p)
  \/ \E p \in Procs : SubmitFind(p)
  \/ \E p \in Procs : SubmitPopulate(p)
  \/ \E p \in Procs : SubmitCancel(p)
  \/ \E p \in Procs : SubmitSaveAttempt(p)
  \/ \E p \in Procs : SubmitSaveQuiz(p)
  \/ \E a \in AttemptIds : AutoFind(a)
  \/ \E a \in AttemptIds : AutoPopulate(a)
  \/ \E a \in AttemptIds : AutoSaveAttempt(a)
  \/ \E a \in AttemptIds : AutoSaveQuiz(a)
  \/ \E p \in Procs : DeleteFind(p)
  \/ \E p \in Procs : DeleteDo(p)
  \/ Tick

Spec == Init /\ [][Next]_vars

(* ------------------------------------------------------------ the properties *)

Stored == 1..Len(attempts)

SubmittedOf(q) ==
  {a \in Stored : attempts[a].quizId = q /\ attempts[a].status = "submitted"}

RECURSIVE SumScores(_)
SumScores(S) ==
  IF S = {} THEN 0
  ELSE LET a == CHOOSE x \in S : TRUE IN attempts[a].score + SumScores(S \ {a})

\* A /submit between its first query and its response, or a running job.
FinalizationInFlight ==
  \/ \E p \in Procs : procs[p].op = "submit" /\ procs[p].pc # "idle"
  \/ \E a \in AttemptIds : jobs[a].st = "running"

\* C1: of a /submit and the auto-submit job of one attempt, at most one updates
\* the quiz's aggregates: never has the job logged its auto-submission of an
\* attempt whose /submit answers 200 (the quiz being stored throughout).
C1_OneFinalizerUpdatesAggregates ==
  \A a \in Stored :
    ~( /\ res.op = "submit" /\ res.code = 200 /\ res.attemptId = a
       /\ jobs[a].log = "auto-submitted"
       /\ quizzes[attempts[a].quizId].exists )

\* C2: with no finalization in flight, a stored quiz's attemptCount is the
\* number of its submitted attempts and its totalScore the sum of their scores.
C2_AggregatesReflectSubmitted ==
  ~FinalizationInFlight =>
    \A q \in QuizIds :
      quizzes[q].exists =>
        /\ quizzes[q].attemptCount = Cardinality(SubmittedOf(q))
        /\ quizzes[q].totalScore = SumScores(SubmittedOf(q))

\* C3: a user has at most one in-progress attempt of a quiz.
C3_OneInProgressPerUserAndQuiz ==
  \A a, b \in Stored :
    ( /\ attempts[a].userId = attempts[b].userId
      /\ attempts[a].quizId = attempts[b].quizId
      /\ attempts[a].status = "in-progress"
      /\ attempts[b].status = "in-progress" ) => a = b

\* An in-progress attempt of user u and quiz q whose /start has answered.
OpenAttempts(u, q) ==
  {a \in Stored : /\ attempts[a].userId = u /\ attempts[a].quizId = q
                  /\ attempts[a].status = "in-progress"
                  /\ jobs[a].st # "none"}

\* C4: a /start received while the user's earlier /start of the quiz has
\* answered and that attempt is in progress answers with that attempt and goes
\* on to create nothing.
C4_StartReturnsOpenAttempt ==
  [][ \A p \in Procs :
        ( /\ procs[p].pc = "idle" /\ procs'[p].op = "start"
          /\ OpenAttempts(procs'[p].user, procs'[p].quizId) # {} )
        => /\ procs'[p].pc = "idle"
           /\ res'.code = 201
           /\ res'.id \in OpenAttempts(procs'[p].user, procs'[p].quizId) ]_vars

\* C5: a stored status of submitted stays submitted in every step.
C5_StatusMonotonic ==
  [][ \A a \in Stored :
        attempts[a].status = "submitted" => attempts'[a].status = "submitted" ]_vars

\* C5's case: a /save that had read the attempt in progress has written it
\* after the finalization, and the attempt is submitted.
C5_LateSaveLeftSubmitted ==
  \E a \in lateSaves : attempts[a].status = "submitted"

\* C6: a stored attempt has a score exactly when it is submitted.
C6_ScoreIffSubmitted ==
  \A a \in Stored : (attempts[a].score # null) <=> (attempts[a].status = "submitted")

\* C6's case: an attempt finalized with a score beside one in progress without.
C6_SubmittedBesideInProgress ==
  \E a, b \in Stored :
    /\ attempts[a].status = "submitted" /\ attempts[a].score = 1
    /\ attempts[b].status = "in-progress" /\ attempts[b].score = null

\* The step of a /save of attempt a by handler p that reads or writes the store.
SaveStep(p, a) ==
  \/ procs[p].pc = "save_save" /\ procs[p].attemptId = a /\ procs'[p] # procs[p]
  \/ procs[p].pc = "idle" /\ res'.op = "save" /\ res'.attemptId = a
  \/ procs[p].pc = "idle" /\ procs'[p].op = "save" /\ procs'[p].attemptId = a

\* C7: a step of /save on an attempt stored as submitted answers 400 and
\* leaves the stored attempt as it is.
C7_SaveOnSubmittedRejected ==
  [][ \A p \in Procs : \A a \in Stored :
        (SaveStep(p, a) /\ attempts[a].status = "submitted")
        => res'.code = 400 /\ attempts'[a] = attempts[a] ]_vars

\* C8: a /submit answers 200 only with the attempt stored as submitted; a
\* /submit that comes after it reads the attempt as submitted, answers 400 and
\* writes neither the attempt nor the quiz.
C8_SecondSubmitAlreadyFinalized ==
  [][ /\ (res'.op = "submit" /\ res'.code = 200)
           => attempts'[res'.attemptId].status = "submitted"
      /\ \A p \in Procs :
           /\ ( /\ procs[p].pc = "idle" /\ procs'[p].op = "submit"
                /\ procs'[p].attemptId \in Stored
                /\ attempts[procs'[p].attemptId].status = "submitted" )
              => /\ procs'[p].pc = "submit_populate"
                 /\ procs'[p].attempt.status = "submitted"
                 /\ UNCHANGED <<attempts, quizzes>>
           /\ ( /\ procs[p].pc = "submit_populate"
                /\ procs[p].attempt.status = "submitted"
                /\ procs'[p] # procs[p] )
              => /\ procs'[p] = IdleProc
                 /\ res' = [op |-> "submit", attemptId |-> procs[p].attemptId,
                            code |-> 400, id |-> 0]
                 /\ UNCHANGED <<attempts, quizzes>> ]_vars

\* C8's case: the second /submit of an attempt has answered 400, the first one
\* having finalized it (its job has not run) and counted it once.
C8_SecondSubmitRejected ==
  \E a \in Stored :
    /\ res = [op |-> "submit", attemptId |-> a, code |-> 400, id |-> 0]
    /\ \A p \in Procs : procs[p].pc = "idle"
    /\ jobs[a].st = "scheduled"
    /\ attempts[a].status = "submitted" /\ attempts[a].score # null
    /\ quizzes[attempts[a].quizId].attemptCount = 1
    /\ quizzes[attempts[a].quizId].totalScore = attempts[a].score

\* The score of the design: the questions whose answer, the first entry of
\* the question's id, is the correct one.
RightlyAnswered(answers, quiz) ==
  {k \in DOMAIN quiz.questions :
     \E i \in DOMAIN answers :
       /\ answers[i].questionId = quiz.questions[k]._id
       /\ answers[i].selectedAnswer = quiz.questions[k].correctAnswer
       /\ \A j \in 1..(i - 1) : answers[j].questionId # quiz.questions[k]._id}

\* C9: the /submit of an in-progress attempt whose quiz is stored stores the
\* attempt as submitted with the score of the answers it read, and its write
\* of the quiz raises the stored attemptCount by 1 and the stored totalScore
\* by that score, which it answers with 200.
C9_SubmitFinalizesAndCounts ==
  [][ \A p \in Procs :
        LET a == procs[p].attemptId
            q == procs[p].attempt.quizId
            score == Cardinality(RightlyAnswered(procs[p].attempt.answers, procs[p].quiz))
        IN  /\ (procs[p].pc = "submit_save_attempt" /\ procs'[p] # procs[p])
               => /\ attempts'[a].status = "submitted"
                  /\ attempts'[a].score = score
            /\ ( /\ procs[p].pc = "submit_save_quiz" /\ procs'[p] # procs[p]
                 /\ quizzes[q].exists )
               => /\ quizzes'[q].attemptCount = quizzes[q].attemptCount + 1
                  /\ quizzes'[q].totalScore = quizzes[q].totalScore + score
                  /\ res'.code = 200 /\ res'.id = a ]_vars

\* C10: the job scores the stored answers of an attempt as /submit does.
C10_AutoSubmitScoresAsSubmit ==
  \A a \in Stored :
    LET quiz == FindQuiz(attempts[a].quizId)
    IN  quiz.exists =>
          autoSubmitScore(attempts[a].answers, quiz)
            = calculateScore(attempts[a].answers, quiz)

(* ------------------------------------------- the job fired more than once *)

\* The scheduler holds a job whose data names no attempt: the handler of
\* agenda.define is invoked with whatever job.attrs.data the collection holds.
ScheduleUnknown(a) ==
  /\ a = Len(attempts) + 1
  /\ jobs[a].st = "none"
  /\ jobs' = [jobs EXCEPT ![a] =
        [NoJob EXCEPT !.st = "scheduled", !.nextRunAt = now]]
  /\ res' = NoResponse
  /\ UNCHANGED <<quizzes, attempts, procs, now, nreq, lateSaves>>

\* The scheduler fires a job again after its run has ended (a duplicate fire).
Refire(a) ==
  /\ jobs[a].st = "done"
  /\ jobs' = [jobs EXCEPT ![a].st = "scheduled", ![a].log = ""]
  /\ res' = NoResponse
  /\ UNCHANGED <<quizzes, attempts, procs, now, nreq, lateSaves>>

\* The /start of the first attempt.
StartFirst(p) == attempts = <<>> /\ StartFind(p)

\* One attempt is started, answered by requests that may overlap, and
\* finalized by the job alone, which the scheduler may fire again and again.
AutoNext ==
  \/ StartFirst("w1")
  \/ StartSave("w1")
  \/ StartSchedule("w1")
  \/ \E p \in Procs : SaveFind(p)
  \/ \E p \in Procs : SaveSave(p)
  \/ \E a \in AttemptIds : AutoFind(a)
  \/ \E a \in AttemptIds : AutoPopulate(a)
  \/ \E a \in AttemptIds : AutoSaveAttempt(a)
  \/ \E a \in AttemptIds : AutoSaveQuiz(a)
  \/ \E a \in AttemptIds : ScheduleUnknown(a)
  \/ \E a \in AttemptIds : Refire(a)
  \/ Tick

AutoSpec == Init /\ [][AutoNext]_vars

\* A step of the job a: its query, or the step after one of its awaits.
JobStep(a) == jobs'[a] # jobs[a] /\ procs' = procs /\ jobs[a].st \in {"scheduled", "running"}

Reorderings(A) ==
  LET n == Len(A)
      Bijections == {f \in [1..n -> 1..n] : \A i, j \in 1..n : f[i] = f[j] => i = j}
  IN  {[i \in 1..n |-> A[f[i]]] : f \in Bijections}

\* C12: the score of the answers a stored attempt holds, as /submit computes
\* it and as the job computes it, lies between 0 and the number of the quiz's
\* questions and is the same for the answers in any other order.
C12_ScoreInRangeAnyOrder ==
  \A a \in Stored :
    LET quiz == FindQuiz(attempts[a].quizId)
        A == attempts[a].answers
    IN  quiz.exists =>
          \A B \in Reorderings(A) :
            /\ calculateScore(B, quiz) \in 0..Len(quiz.questions)
            /\ autoSubmitScore(B, quiz) \in 0..Len(quiz.questions)
            /\ calculateScore(B, quiz) = calculateScore(A, quiz)
            /\ autoSubmitScore(B, quiz) = autoSubmitScore(A, quiz)

\* The questions that the answers hold an entry for, of the question's id and
\* of exactly the question's correct answer.
CorrectlyAnswered(answers, quiz) ==
  {k \in DOMAIN quiz.questions :
     \E i \in DOMAIN answers :
       /\ answers[i].questionId = quiz.questions[k]._id
       /\ answers[i].selectedAnswer = quiz.questions[k].correctAnswer}

\* C13: calculateScore of the answers a stored attempt holds is the number of
\* the quiz's questions that the answers hold a correct entry for.
C13_ScoreCountsCorrectQuestions ==
  \A a \in Stored :
    LET quiz == FindQuiz(attempts[a].quizId)
    IN  quiz.exists =>
          calculateScore(attempts[a].answers, quiz)
            = Cardinality(CorrectlyAnswered(attempts[a].answers, quiz))

(* ------------------------------------------------------- the stored answers *)

\* C14: a /save that answers 200 after its write, the attempt not written
\* since the handler read it, leaves no entry of the request's question if
\* the selectedAnswer is empty, and otherwise leaves the question's entry
\* with the request's selectedAnswer and no other value for the question.
C14_SaveSetsOrClears ==
  [][ \A p \in Procs :
        LET a == procs[p].attemptId
            qid == CastObjectId(procs[p].questionId)
            sel == procs[p].selectedAnswer
        IN  ( /\ procs[p].pc = "save_save" /\ procs'[p] # procs[p]
              /\ res'.op = "save" /\ res'.code = 200
              /\ attempts[a].answers = procs[p].attempt.answers )
            => LET after == attempts'[a].answers
               IN  IF sel = ""
                   THEN \A i \in DOMAIN after : after[i].questionId # qid
                   ELSE /\ \E i \in DOMAIN after : after[i].questionId = qid
                        /\ \A i \in DOMAIN after :
                             after[i].questionId = qid => after[i].selectedAnswer = sel
      ]_vars

\* C15: the answers of a stored attempt hold at most one entry per question
\* and no entry with an empty selectedAnswer.
C15_OneEntryPerQuestion ==
  \A a \in Stored :
    LET A == attempts[a].answers
    IN  /\ \A i, j \in DOMAIN A : A[i].questionId = A[j].questionId => i = j
        /\ \A i \in DOMAIN A : A[i].selectedAnswer # ""

(* ----------------------------------------------------------------- /start *)

\* C16: a /start goes on past its query only if the quiz of its quizId is
\* stored; the /start that does not go on answers 404; neither step writes an
\* attempt or a job.
C16_StartOfNoQuizNotFound ==
  [][ \A p \in Procs :
        /\ ( /\ procs[p].pc = "idle" /\ procs'[p].op = "start"
             /\ procs'[p].pc # "idle" )
           => /\ FindQuiz(procs'[p].quizId).exists
              /\ UNCHANGED <<attempts, jobs>>
        /\ ( /\ procs[p].pc = "idle" /\ procs'[p].pc = "idle"
             /\ nreq' = nreq + 1 /\ res'.op = "start" )
           => /\ res'.code = 404
              /\ UNCHANGED <<attempts, jobs>> ]_vars

\* C16's case: the /start of a quizId of no quiz has answered 404 beside the
\* stored quiz, and no attempt and no job is stored.
C16_NotFoundAnswered ==
  /\ res = [op |-> "start", attemptId |-> 0, code |-> 404, id |-> 0]
  /\ \A q \in QuizIds : quizzes[q].exists
  /\ attempts = <<>>
  /\ \A a \in AttemptIds : jobs[a] = NoJob

\* A quiz that closes one time limit later than QuizA.
QuizLong == [QuizA EXCEPT !.dateCloses = QuizA.dateCloses + QuizA.timeLimit]

\* The stored quiz closes at the end of the clock or later.
StartInit ==
  /\ quizzes \in [QuizIds -> {QuizA, QuizLong}]
  /\ attempts = <<>>
  /\ jobs = [a \in AttemptIds |-> NoJob]
  /\ procs = [p \in Procs |-> IdleProc]
  /\ res = NoResponse
  /\ now = 0
  /\ nreq = 0
  /\ lateSaves = {}

\* The /start requests alone, as the clock runs.
StartNext ==
  \/ \E p \in Procs : StartFind(p)
  \/ \E p \in Procs : StartSave(p)
  \/ \E p \in Procs : StartSchedule(p)
  \/ Tick

StartSpec == StartInit /\ [][StartNext]_vars

\* C17: a /start that finds its quiz builds an in-progress attempt of the user
\* and the quiz with no score and no answers, starting now and ending at the
\* earlier of the quiz's close and now plus its time limit; its save stores
\* that one document more; its last step schedules one job more, at the end
\* time of the attempt and with the attempt's id, and answers 201 with the id.
C17_StartCreatesAttemptAndJob ==
  [][ \A p \in Procs :
        /\ ( /\ procs[p].pc = "idle" /\ procs'[p].op = "start"
             /\ procs'[p].pc # "idle" )
           => LET quiz == FindQuiz(procs'[p].quizId)
                  attempt == procs'[p].attempt
              IN  /\ attempt.userId = procs'[p].user
                  /\ attempt.quizId = procs'[p].quizId
                  /\ attempt.status = "in-progress"
                  /\ attempt.score = null
                  /\ attempt.answers = <<>>
                  /\ attempt.startTime = now
                  /\ attempt.endTime \in {quiz.dateCloses, now + quiz.timeLimit}
                  /\ attempt.endTime <= quiz.dateCloses
                  /\ attempt.endTime <= now + quiz.timeLimit
                  /\ UNCHANGED <<attempts, jobs>>
        /\ (procs[p].pc = "start_save" /\ procs'[p] # procs[p])
           => /\ attempts' = Append(attempts, procs[p].attempt)
              /\ procs'[p].id = Len(attempts')
              /\ procs'[p].attempt = procs[p].attempt
              /\ UNCHANGED jobs
        /\ (procs[p].pc = "start_schedule" /\ procs'[p] # procs[p])
           => LET id == procs[p].id
              IN  /\ res' = [op |-> "start", attemptId |-> 0, code |-> 201, id |-> id]
                  /\ UNCHANGED attempts
                  /\ jobs[id].st = "none"
                  /\ jobs'[id].st = "scheduled"
                  /\ jobs'[id].nextRunAt = attempts[id].endTime
                  /\ jobs'[id].data = BsonObjectId(id)
                  /\ \A a \in AttemptIds \ {id} : jobs'[a] = jobs[a] ]_vars

\* C17's case: a /start has answered 201 for an attempt that ends with its
\* time limit, before the quiz closes, and the one job is scheduled then.
C17_StartedToTimeLimit ==
  \E a \in Stored :
    LET quiz == FindQuiz(attempts[a].quizId)
    IN  /\ res = [op |-> "start", attemptId |-> 0, code |-> 201, id |-> a]
        /\ attempts[a].status = "in-progress" /\ attempts[a].score = null
        /\ attempts[a].endTime = attempts[a].startTime + quiz.timeLimit
        /\ attempts[a].endTime < quiz.dateCloses
        /\ jobs[a].st = "scheduled" /\ jobs[a].nextRunAt = attempts[a].endTime
        /\ Cardinality({b \in AttemptIds : jobs[b].st # "none"}) = Len(attempts)

\* C18: no step changes the endTime of a stored attempt.
C18_EndTimeFixed ==
  [][ \A a \in Stored : attempts'[a].endTime = attempts[a].endTime ]_vars

\* C18's case: an attempt answered by /save and finalized by the job, with a
\* later /start stored after it, ends when its /start said.
C18_EndTimeKept ==
  \E a, b \in Stored :
    /\ a < b
    /\ attempts[a].answers # <<>>
    /\ attempts[a].status = "submitted" /\ jobs[a].log = "auto-submitted"
    /\ attempts[a].endTime
         = Min(FindQuiz(attempts[a].quizId).dateCloses,
               attempts[a].startTime + FindQuiz(attempts[a].quizId).timeLimit)

(* ------------------------------------------- attempts the client leaves open *)

\* The client starts attempts and saves answers and never submits; the quiz
\* stays stored.
OpenNext ==
  \/ \E p \in Procs : StartFind(p)
  \/ \E p \in Procs : StartSave(p)
  \/ \E p \in Procs : StartSchedule(p)
  \/ \E p \in Procs : SaveFind(p)
  \/ \E p \in Procs : SaveSave(p)
  \/ \E a \in AttemptIds : AutoFind(a)
  \/ \E a \in AttemptIds : AutoPopulate(a)
  \/ \E a \in AttemptIds : AutoSaveAttempt(a)
  \/ \E a \in AttemptIds : AutoSaveQuiz(a)
  \/ Tick

\* Time passes, a handler resumes after its await, the poller takes each job
\* that is due, and a running job resumes after its await.
OpenFairness ==
  /\ WF_vars(Tick)
  /\ \A p \in Procs :
       WF_vars(StartSave(p)) /\ WF_vars(StartSchedule(p)) /\ WF_vars(SaveSave(p))
  /\ \A a \in AttemptIds :
       /\ WF_vars(AutoFind(a)) /\ WF_vars(AutoPopulate(a))
       /\ WF_vars(AutoSaveAttempt(a)) /\ WF_vars(AutoSaveQuiz(a))

OpenSpec == Init /\ [][OpenNext]_vars /\ OpenFairness

\* Every job of a stored attempt has run, and no handler is in flight.
AllSettled ==
  /\ \A p \in Procs : procs[p].pc = "idle"
  /\ \A a \in Stored : jobs[a].st = "done"

\* C19: with the client never submitting and the quiz stored, every stored
\* attempt is eventually submitted (by its job, the one finalizer there is),
\* and once every job has run the quiz has counted each submitted attempt
\* once: its attemptCount is their number and its totalScore their scores' sum.
C19_OpenAttemptsAutoSubmittedOnce ==
  /\ \A a \in AttemptIds :
       (a \in Stored) ~> (a \in Stored /\ attempts[a].status = "submitted")
  /\ [](AllSettled =>
          \A q \in QuizIds :
            /\ quizzes[q].attemptCount = Cardinality(SubmittedOf(q))
            /\ quizzes[q].totalScore = SumScores(SubmittedOf(q)))

\* C20: the job of an attempt is taken by the poller, and writes the attempt
\* as submitted, only at or after the attempt's endTime.
C20_NoAutoSubmitBeforeEndTime ==
  [][ \A a \in AttemptIds :
        /\ ( /\ jobs[a].st = "scheduled" /\ jobs'[a].st \in {"running", "done"}
             /\ AttemptFound(jobs[a].data[2]) )
           => attempts[jobs[a].data[2]].endTime <= now
        /\ ( /\ jobs[a].st = "running" /\ jobs[a].pc = "save_attempt"
             /\ jobs'[a] # jobs[a] )
           => /\ attempts'[jobs[a].data[2]].status = "submitted"
              /\ attempts[jobs[a].data[2]].endTime <= now ]_vars

\* C20's case: an attempt that was open for a time has been submitted by its
\* job, its endTime reached.
C20_AutoSubmittedAtEndTime ==
  \E a \in Stored :
    /\ attempts[a].startTime < attempts[a].endTime
    /\ attempts[a].status = "submitted"
    /\ jobs[a].st = "done" /\ jobs[a].log = "auto-submitted"
    /\ attempts[a].endTime <= now

(* ------------------------------------------------------- the quiz deleted *)

\* C21: a /submit whose populate finds no quiz answers 404 and writes no
\* attempt, and a job whose populate finds no quiz writes no attempt: the
\* attempt stays in progress with no score.
C21_NoFinalizationWithoutQuiz ==
  [][ /\ \A p \in Procs :
           ( /\ procs[p].pc = "submit_cancel" /\ procs'[p] # procs[p]
             /\ ~procs[p].quiz.exists )
           => res'.code = 404 /\ UNCHANGED attempts
      /\ \A a \in AttemptIds :
           /\ ( /\ jobs[a].st = "running" /\ jobs[a].pc = "populate"
                /\ jobs'[a] # jobs[a]
                /\ jobs[a].attempt.status = "in-progress"
                /\ ~FindQuiz(jobs[a].attempt.quizId).exists )
              => jobs'[a].st = "done" /\ UNCHANGED attempts
           /\ ( /\ jobs[a].st = "running" /\ jobs[a].pc = "save_attempt"
                /\ jobs'[a] # jobs[a]
                /\ ~jobs[a].quiz.exists )
              => UNCHANGED attempts ]_vars

(* -------------------------------------------------- the quiz of one attempt *)

\* One attempt is started and finalized by /submit or by its job while the
\* quiz's creator edits and deletes the quiz.
QuizNext ==
  \/ StartFirst("w1")
  \/ StartSave("w1")
  \/ StartSchedule("w1")
  \/ \E p \in Procs : SaveFind(p)
  \/ \E p \in Procs : SaveSave(p)
  \/ \E p \in Procs : SubmitFind(p)
  \/ \E p \in Procs : SubmitPopulate(p)
  \/ \E p \in Procs : SubmitCancel(p)
  \/ \E p \in Procs : SubmitSaveAttempt(p)
  \/ \E p \in Procs : SubmitSaveQuiz(p)
  \/ \E a \in AttemptIds : AutoFind(a)
  \/ \E a \in AttemptIds : AutoPopulate(a)
  \/ \E a \in AttemptIds : AutoSaveAttempt(a)
  \/ \E a \in AttemptIds : AutoSaveQuiz(a)
  \/ \E p \in Procs : EditFind(p)
  \/ \E p \in Procs : EditSave(p)
  \/ \E p \in Procs : DeleteFind(p)
  \/ \E p \in Procs : DeleteDo(p)
  \/ Tick

QuizSpec == Init /\ [][QuizNext]_vars

\* The step is the quiz write of a finalization whose score is the given one.
QuizWriteOfFinalization(score) ==
  \/ \E p \in Procs : /\ procs[p].pc = "submit_save_quiz" /\ procs'[p] # procs[p]
                      /\ procs[p].attempt.score = score
  \/ \E a \in AttemptIds : /\ jobs[a].st = "running" /\ jobs[a].pc = "save_quiz"
                           /\ jobs'[a] # jobs[a] /\ jobs[a].score = score

\* C22: a step that changes the totalScore or the attemptCount of a stored
\* quiz is the quiz write of a finalization, and raises the attemptCount by 1
\* and the totalScore by the score of the attempt; neither ever decreases.
C22_AggregatesOnlyIncremented ==
  [][ \A q \in QuizIds :
        (quizzes[q].exists /\ quizzes'[q].exists) =>
          /\ quizzes'[q].attemptCount >= quizzes[q].attemptCount
          /\ quizzes'[q].totalScore >= quizzes[q].totalScore
          /\ ( \/ quizzes'[q].attemptCount # quizzes[q].attemptCount
               \/ quizzes'[q].totalScore # quizzes[q].totalScore )
             => /\ quizzes'[q].attemptCount = quizzes[q].attemptCount + 1
                /\ QuizWriteOfFinalization(quizzes'[q].totalScore - quizzes[q].totalScore)
    ]_vars

\* C23: no increment of a finalization is lost: with no finalization in
\* flight, a stored quiz has counted at least its submitted attempts and at
\* least the sum of their scores.
C23_NoLostIncrement ==
  ~FinalizationInFlight =>
    \A q \in QuizIds :
      quizzes[q].exists =>
        /\ quizzes[q].attemptCount >= Cardinality(SubmittedOf(q))
        /\ quizzes[q].totalScore >= SumScores(SubmittedOf(q))

(* ------------------------------------------------------ the attempts read *)

\* One attempt is started and finalized, the quiz may be deleted, and users
\* read the attempt and the quiz's submissions.
ReadNext ==
  \/ StartFirst("w1")
  \/ StartSave("w1")
  \/ StartSchedule("w1")
  \/ \E p \in Procs : SubmitFind(p)
  \/ \E p \in Procs : SubmitPopulate(p)
  \/ \E p \in Procs : SubmitCancel(p)
  \/ \E p \in Procs : SubmitSaveAttempt(p)
  \/ \E p \in Procs : SubmitSaveQuiz(p)
  \/ \E a \in AttemptIds : AutoFind(a)
  \/ \E a \in AttemptIds : AutoPopulate(a)
  \/ \E a \in AttemptIds : AutoSaveAttempt(a)
  \/ \E a \in AttemptIds : AutoSaveQuiz(a)
  \/ \E p \in Procs : DeleteFind(p)
  \/ \E p \in Procs : DeleteDo(p)
  \/ \E p \in Procs : GetFind(p)
  \/ \E p \in Procs : GetQuiz(p)
  \/ \E p \in Procs : ListFind(p)
  \/ \E p \in Procs : ListAttempts(p)
  \/ Tick

ReadSpec == Init /\ [][ReadNext]_vars

\* The answer of GET /attempt/:attemptId after its second query: 404 with no
\* quiz, the attempt for its participant and for the quiz's creator, 403 for
\* any other requester.
GetAnsweredByRequester(p) ==
  (procs[p].pc = "get_quiz" /\ procs'[p] # procs[p])
  => LET a == procs[p].attemptId
         quiz == FindQuiz(attempts[a].quizId)
         u == procs[p].user
     IN  /\ res'.op = "get" /\ res'.attemptId = a
         /\ attempts[a].status = "submitted"
         /\ IF ~quiz.exists THEN res'.code = 404
            ELSE IF u = attempts[a].userId \/ u = quiz.createdBy
            THEN res'.code = 200 /\ res'.id = a
            ELSE res'.code = 403

\* The handler p answers a GET at its first step.
GetAnsweredAtOnce(p) ==
  /\ procs[p].pc = "idle" /\ procs'[p].pc = "idle"
  /\ nreq' = nreq + 1 /\ res'.op = "get"

\* C24 as stated: GET /attempt/:attemptId answers 404 whenever the attempt
\* or its quiz is missing, the attempt only to its participant or the quiz's
\* creator, and 403 to any other requester.
C24_GetAttemptAsStated ==
  [][ \A p \in Procs :
        /\ GetAnsweredByRequester(p)
        /\ GetAnsweredAtOnce(p)
           => LET a == res'.attemptId
              IN  ( \/ ~AttemptFound(a)
                    \/ ~FindQuiz(attempts[a].quizId).exists ) <=> res'.code = 404
    ]_vars

\* C24: GET /attempt/:attemptId answers 404 for a missing attempt and 403 for
\* an attempt that is not submitted, whoever asks and whether or not its quiz
\* is stored; for a submitted attempt it answers 404 with no quiz, the attempt
\* for its participant and for the quiz's creator, and 403 for anyone else.
C24_GetAttemptAuthorized ==
  [][ \A p \in Procs :
        /\ GetAnsweredByRequester(p)
        /\ GetAnsweredAtOnce(p)
           => LET a == res'.attemptId
              IN  IF ~AttemptFound(a) THEN res'.code = 404
                  ELSE attempts[a].status # "submitted" /\ res'.code = 403
        /\ ( /\ procs[p].pc = "idle" /\ procs'[p].op = "get"
             /\ procs'[p].pc # "idle" )
           => /\ AttemptFound(procs'[p].attemptId)
              /\ attempts[procs'[p].attemptId].status = "submitted" ]_vars

\* C24's case: the submitted attempt has been returned to a requester while
\* the GET of "u3", neither its participant nor the creator, is in flight.
C24_ReturnedAndPending ==
  \E a \in Stored :
    /\ res = [op |-> "get", attemptId |-> a, code |-> 200, id |-> a]
    /\ attempts[a].status = "submitted"
    /\ \E p \in Procs : /\ procs[p].pc = "get_quiz" /\ procs[p].user = "u3"
                        /\ procs[p].attemptId = a

C26_CountedQuizNeverChanged ==
  [][ \A q \in QuizIds :
        (quizzes[q].exists /\ quizzes[q].attemptCount > 0) =>
          \A p \in Procs :
            /\ ( /\ procs[p].pc = "idle" /\ nreq' = nreq + 1
                 /\ procs'[p].op \in {"edit", "delete"} )
               => procs'[p].quizId # q
            /\ ( /\ procs[p].pc = "idle" /\ procs'[p].pc = "idle"
                 /\ nreq' = nreq + 1 /\ res'.op \in {"edit", "delete"}
                 /\ QuizIds = {q} )
               => res'.code = 403 /\ quizzes' = quizzes
            /\ ( /\ procs[p].op \in {"edit", "delete"} /\ procs[p].quizId = q
                 /\ procs'[p] # procs[p] )
               => quizzes'[q] = quizzes[q] ]_vars

\* The clock goes one step past the endTime of an attempt started at 0.
PastTime == MaxTime + 1

TickPast ==
  /\ now < PastTime
  /\ now' = now + 1
  /\ res' = NoResponse
  /\ UNCHANGED <<quizzes, attempts, jobs, procs, nreq, lateSaves>>

\* One attempt, its /save requests and its job, with the clock running past
\* the attempt's endTime.
LateNext ==
  \/ StartFirst("w1")
  \/ StartSave("w1")
  \/ StartSchedule("w1")
  \/ \E p \in Procs : SaveFind(p)
  \/ \E p \in Procs : SaveSave(p)
  \/ \E a \in AttemptIds : AutoFind(a)
  \/ \E a \in AttemptIds : AutoPopulate(a)
  \/ \E a \in AttemptIds : AutoSaveAttempt(a)
  \/ \E a \in AttemptIds : AutoSaveQuiz(a)
  \/ TickPast

LateSpec == Init /\ [][LateNext]_vars

\* C27: /save has no test of the deadline: whatever the clock, a /save that
\* finds its attempt in-progress is answered 200 or goes on to its save(), and
\* a save() that meets the attempt still in-progress, with the version it
\* read, stores the answer and is answered 200.
C27_SaveIgnoresDeadline ==
  [][ \A p \in Procs :
        /\ ( /\ procs[p].pc = "idle" /\ procs'[p].pc = "idle"
             /\ nreq' = nreq + 1 /\ res'.op = "save"
             /\ AttemptFound(res'.attemptId)
             /\ attempts[res'.attemptId].status = "in-progress" )
           => res'.code = 200
        /\ ( /\ procs[p].pc = "save_save" /\ procs'[p] # procs[p]
             /\ attempts[procs[p].attemptId].status = "in-progress"
             /\ VersionOk(attempts[procs[p].attemptId], procs[p]) )
           => /\ res'.op = "save" /\ res'.code = 200
              /\ attempts'[procs[p].attemptId].answers
                   = SavedAnswers(attempts[procs[p].attemptId], procs[p])
              /\ attempts'[procs[p].attemptId].status = "in-progress" ]_vars

\* C27's case: past its endTime, with its job not yet fired, the in-progress
\* attempt has had its second answer stored by a /save answered 200.
C27_SavedPastEndTime ==
  \E a \in Stored :
    /\ res = [op |-> "save", attemptId |-> a, code |-> 200, id |-> a]
    /\ now > attempts[a].endTime
    /\ attempts[a].status = "in-progress"
    /\ jobs[a].st = "scheduled"
    /\ Len(attempts[a].answers) = 2

\* The fields of an attempt that /save is not to touch.
Frame(attempt) ==
  [status |-> attempt.status, score |-> attempt.score,
   startTime |-> attempt.startTime, endTime |-> attempt.endTime,
   userId |-> attempt.userId, quizId |-> attempt.quizId]

\* C28: a step that answers a /save with 200 leaves every quiz and every job
\* as it was, changes no other attempt and creates none, and leaves the
\* status, score, startTime, endTime, userId and quizId of its own attempt
\* unchanged.
C28_SaveChangesOnlyAnswers ==
  [][ (res'.op = "save" /\ res'.code = 200) =>
        LET a == res'.attemptId
        IN  /\ quizzes' = quizzes
            /\ jobs' = jobs
            /\ Len(attempts') = Len(attempts)
            /\ \A b \in Stored : b # a => attempts'[b] = attempts[b]
            /\ Frame(attempts'[a]) = Frame(attempts[a]) ]_vars

\* C28's case: beside a second attempt and its job, the first attempt has
\* had an answer stored by a /save answered 200.
C28_SavedBesideAnother ==
  /\ Len(attempts) = 2
  /\ res = [op |-> "save", attemptId |-> 1, code |-> 200, id |-> 1]
  /\ attempts[1].answers # <<>>
  /\ attempts[2].status = "in-progress"
  /\ jobs[2].st = "scheduled"

\* C29: when a /submit has been answered 200, no job of its attempt is left
\* scheduled and not yet fired.
C29_SubmitLeavesNoPendingJob ==
  (res.op = "submit" /\ res.code = 200) =>
    \A j \in AttemptIds :
      jobs[j].data[2] = res.attemptId => jobs[j].st # "scheduled"

(* ------------------------------------------- the quiz write that is rejected *)

\* A /submit whose catch undoes the attempt's finalization.
SubmitSaveQuizCompensated(p) ==
  /\ procs[p].pc = "submit_save_quiz"
  /\ attempts' = [attempts EXCEPT ![procs[p].attemptId] =
                    [@ EXCEPT !.status = "in-progress", !.score = null]]
  /\ Sends(p, procs[p], 500, 0)
  /\ UNCHANGED <<quizzes, jobs, now, nreq, lateSaves>>

\* await quiz.save() of /submit rejects (the store is unreachable or refuses
\* the write): the catch answers 500 and nothing more is written.
SubmitSaveQuizFails(p) ==
  /\ procs[p].pc = "submit_save_quiz"
  /\ Sends(p, procs[p], 500, 0)
  /\ UNCHANGED <<quizzes, attempts, jobs, now, nreq, lateSaves>>

\* await quiz.save() of the job rejects: the catch logs the error.
AutoSaveQuizFails(a) ==
  /\ jobs[a].st = "running" /\ jobs[a].pc = "save_quiz"
  /\ jobs' = [jobs EXCEPT ![a] = Finished(a, "error")]
  /\ res' = NoResponse
  /\ UNCHANGED <<quizzes, attempts, procs, now, nreq, lateSaves>>

\* One attempt, answered and finalized by /submit or by its job, over a store
\* that may reject the quiz write of a finalization.
FailNext ==
  \/ StartFirst("w1")
  \/ StartSave("w1")
  \/ StartSchedule("w1")
  \/ \E p \in Procs : SaveFind(p)
  \/ \E p \in Procs : SaveSave(p)
  \/ \E p \in Procs : SubmitFind(p)
  \/ \E p \in Procs : SubmitPopulate(p)
  \/ \E p \in Procs : SubmitCancel(p)
  \/ \E p \in Procs : SubmitSaveAttempt(p)
  \/ \E p \in Procs : SubmitSaveQuiz(p)
  \/ \E p \in Procs : SubmitSaveQuizFails(p)
  \/ \E a \in AttemptIds : AutoFind(a)
  \/ \E a \in AttemptIds : AutoPopulate(a)
  \/ \E a \in AttemptIds : AutoSaveAttempt(a)
  \/ \E a \in AttemptIds : AutoSaveQuiz(a)
  \/ \E a \in AttemptIds : AutoSaveQuizFails(a)
  \/ Tick

FailSpec == Init /\ [][FailNext]_vars

\* A /submit or a job of the attempt a that read it in-progress and has not
\* ended.
WriterInFlight(a) ==
  \/ \E p \in Procs :
       /\ procs[p].op = "submit" /\ procs[p].attemptId = a
       /\ \/ procs[p].pc \in {"submit_cancel", "submit_save_attempt", "submit_save_quiz"}
          \/ procs[p].pc = "submit_populate" /\ procs[p].attempt.status = "in-progress"
  \/ \E j \in AttemptIds :
       /\ jobs[j].st = "running" /\ jobs[j].data[2] = a
       /\ \/ jobs[j].pc \in {"save_attempt", "save_quiz"}
          \/ jobs[j].pc = "populate" /\ jobs[j].attempt.status = "in-progress"

\* The step is a rejected quiz write of a finalization of the attempt a.
QuizWriteRejected(a) ==
  \/ \E p \in Procs : /\ procs[p].pc = "submit_save_quiz" /\ procs[p].attemptId = a
                      /\ procs'[p] # procs[p] /\ res'.code = 500
  \/ \E j \in AttemptIds : /\ jobs[j].st = "running" /\ jobs[j].pc = "save_quiz"
                           /\ jobs[j].data[2] = a
                           /\ jobs'[j].st = "done" /\ jobs'[j].log = "error"

\* C30: a rejected quiz write of a finalization leaves the attempt stored as
\* submitted with a score and the quiz as it was; a submitted attempt stays
\* submitted; and once no finalizer that read it in-progress is left, none
\* comes: every later /submit is answered 400, every later job logs that it
\* is already submitted, and the attempt's score and the quiz's attemptCount
\* and totalScore stay as they are.
C30_RejectedQuizWriteNeverRepaired ==
  [][ \A a \in Stored :
        /\ QuizWriteRejected(a)
           => /\ attempts' = attempts /\ quizzes' = quizzes
              /\ attempts[a].status = "submitted" /\ attempts[a].score # null
        /\ attempts[a].status = "submitted" => attempts'[a].status = "submitted"
        /\ (attempts[a].status = "submitted" /\ ~WriterInFlight(a))
           => /\ ~WriterInFlight(a)'
              /\ attempts'[a].score = attempts[a].score
              /\ quizzes' = quizzes
              /\ \A p \in Procs :
                   ( /\ procs[p].pc = "submit_populate" /\ procs[p].attemptId = a
                     /\ procs'[p] # procs[p] ) => res'.code = 400
              /\ \A j \in AttemptIds :
                   ( /\ jobs[j].st = "running" /\ jobs[j].data[2] = a
                     /\ jobs'[j] # jobs[j] ) => jobs'[j].log = "already submitted"
    ]_vars

\* C30's case: the quiz write of the /submit was rejected; the attempt is
\* stored as submitted with the score 1, the quiz has counted nothing, and the
\* job has since found the attempt submitted and done nothing.
C30_UndercountedAfterNoOp ==
  /\ Len(attempts) = 1
  /\ attempts[1].status = "submitted" /\ attempts[1].score = 1
  /\ quizzes["quizA"].exists
  /\ quizzes["quizA"].attemptCount = 0 /\ quizzes["quizA"].totalScore = 0
  /\ jobs[1].st = "done" /\ jobs[1].log = "already submitted"
  /\ ~WriterInFlight(1)

(* --------------------------------------------------- the job that fails *)

\* Attempt.findById(...) of the job rejects: the catch logs the error.
AutoFindFails(a) ==
  /\ jobs[a].st = "scheduled"
  /\ jobs[a].nextRunAt <= now
  /\ jobs' = [jobs EXCEPT ![a] = Finished(a, "error")]
  /\ res' = NoResponse
  /\ UNCHANGED <<quizzes, attempts, procs, now, nreq, lateSaves>>

\* A job whose rejected attempt.save() reaches the scheduler, which records
\* the failure on the job.
AutoSaveAttemptThrows(a) ==
  /\ jobs[a].st = "running" /\ jobs[a].pc = "save_attempt"
  /\ jobs' = [jobs EXCEPT ![a] = [Finished(a, "") EXCEPT !.st = "failed"]]
  /\ res' = NoResponse
  /\ UNCHANGED <<quizzes, attempts, procs, now, nreq, lateSaves>>

\* await attempt.save() of the job rejects: the catch logs the error.
AutoSaveAttemptFails(a) ==
  /\ jobs[a].st = "running" /\ jobs[a].pc = "save_attempt"
  /\ jobs' = [jobs EXCEPT ![a] = Finished(a, "error")]
  /\ res' = NoResponse
  /\ UNCHANGED <<quizzes, attempts, procs, now, nreq, lateSaves>>

\* One attempt and its job over a store that may reject each query of the
\* job, with the quiz deleted under it.
JobNext ==
  \/ StartFirst("w1")
  \/ StartSave("w1")
  \/ StartSchedule("w1")
  \/ \E p \in Procs : SaveFind(p)
  \/ \E p \in Procs : SaveSave(p)
  \/ \E p \in Procs : DeleteFind(p)
  \/ \E p \in Procs : DeleteDo(p)
  \/ \E a \in AttemptIds : AutoFind(a)
  \/ \E a \in AttemptIds : AutoFindFails(a)
  \/ \E a \in AttemptIds : AutoPopulate(a)
  \/ \E a \in AttemptIds : AutoSaveAttempt(a)
  \/ \E a \in AttemptIds : AutoSaveAttemptFails(a)
  \/ \E a \in AttemptIds : AutoSaveQuiz(a)
  \/ \E a \in AttemptIds : AutoSaveQuizFails(a)
  \/ Tick

JobSpec == Init /\ [][JobNext]_vars

\* C31: a job that the poller has taken goes on or returns with a line
\* logged, whatever query or scoring fails; a job that has returned is never
\* scheduled or run again.
C31_JobAlwaysReturns ==
  [][ \A a \in AttemptIds :
        /\ (jobs[a].st \in {"scheduled", "running"} /\ jobs'[a] # jobs[a])
           => \/ jobs'[a].st = "running"
              \/ /\ jobs'[a].st = "done"
                 /\ jobs'[a].log \in {"not found", "already submitted",
                                      "auto-submitted", "error"}
        /\ jobs[a].st = "done" => jobs'[a] = jobs[a] ]_vars

\* C31's case: the job has met a failure, logged the error and returned; at
\* the endTime the attempt with its answer is still in-progress and the job
\* is not scheduled again.
C31_FailedJobNotRerun ==
  /\ Len(attempts) = 1
  /\ attempts[1].status = "in-progress" /\ attempts[1].answers # <<>>
  /\ now >= attempts[1].endTime
  /\ jobs[1].st = "done" /\ jobs[1].log = "error"

\* C32: no step removes a stored attempt or changes the userId or the quizId
\* of one: the stored identifiers only grow.
C32_AttemptsNeverDeleted ==
  [][ /\ Len(attempts') >= Len(attempts)
      /\ \A a \in Stored : /\ attempts'[a].userId = attempts[a].userId
                           /\ attempts'[a].quizId = attempts[a].quizId ]_vars

\* C32's case: the quiz has been deleted and its two attempts are stored,
\* each with its participant and its quiz.
C32_AttemptsOutliveQuiz ==
  /\ Len(attempts) = 2
  /\ ~quizzes["quizA"].exists
  /\ \A a \in Stored : attempts[a].userId = "u1" /\ attempts[a].quizId = "quizA"

\* C33: the stored score of every submitted attempt of a stored quiz is the
\* score of its stored answers over the quiz's questions.
C33_ScoreOfStoredAnswers ==
  \A a \in Stored :
    (attempts[a].status = "submitted" /\ quizzes[attempts[a].quizId].exists)
    => attempts[a].score
         = calculateScore(attempts[a].answers, quizzes[attempts[a].quizId])

\* C34: every in-progress attempt whose /start has been answered has a job
\* carrying its identifier that is scheduled, or running and not yet returned.
C34_InProgressHasPendingJob ==
  \A a \in Stored :
    ( /\ attempts[a].status = "in-progress"
      /\ \A p \in Procs : ~(procs[p].pc = "start_schedule" /\ procs[p].id = a) )
    => \E j \in AttemptIds : /\ jobs[j].data = BsonObjectId(a)
                             /\ jobs[j].st \in {"scheduled", "running"}

\* The handler p is the only finalizer of the attempt a that has read it or
\* written since the attempt was started.
OnlyFinalizer(p, a) ==
  /\ \A o \in Procs \ {p} : procs[o].op # "submit"
  /\ \A j \in AttemptIds : jobs[j].data = BsonObjectId(a) => jobs[j].st = "scheduled"
  /\ quizzes[attempts[a].quizId].attemptCount = 0

\* C35: the step that answers a /submit with an error writes nothing, and
\* when the request had read its attempt in-progress and no other finalizer
\* has touched it, the attempt is still stored in-progress with no score.
C35_FailedSubmitChangesNothing ==
  [][ (res'.op = "submit" /\ res'.code # 200) =>
        /\ attempts' = attempts /\ quizzes' = quizzes /\ jobs' = jobs
        /\ \A p \in Procs :
             ( /\ procs[p].pc \in {"submit_cancel", "submit_save_attempt",
                                   "submit_save_quiz"}
               /\ procs'[p].pc = "idle"
               /\ OnlyFinalizer(p, procs[p].attemptId) )
             => /\ attempts'[procs[p].attemptId].status = "in-progress"
                /\ attempts'[procs[p].attemptId].score = null ]_vars

\* C36: no step of a /save or /submit issued by a user other than the
\* attempt's participant changes the answers, the status or the score of the
\* attempt.
C36_OnlyParticipantChangesAttempt ==
  [][ \A p \in Procs :
        ( /\ procs[p].op \in {"save", "submit"}
          /\ procs'[p] # procs[p]
          /\ procs[p].user # attempts[procs[p].attemptId].userId )
        => LET a == procs[p].attemptId
           IN  /\ attempts'[a].answers = attempts[a].answers
               /\ attempts'[a].status = attempts[a].status
               /\ attempts'[a].score = attempts[a].score ]_vars

\* C37: every stored attempt ends no earlier than it starts.
C37_StartNotAfterEnd ==
  \A a \in Stored : attempts[a].startTime <= attempts[a].endTime

====
